---- MODULE Spec2Model ----
(***************************************************************************)
(* Lightning's lock-free word table (src/src/map.rs): Table, Chunk,        *)
(* modify_entry, check_resize and the WordMap / ObjectMap facades.         *)
(*                                                                         *)
(* Every load, store, CAS and fetch_add of the code on shared memory is    *)
(* one step of the thread that issues it; the code between two such        *)
(* accesses is folded into the later step.  Memory is sequentially         *)
(* consistent: every behaviour of the model is a behaviour of the code,    *)
(* the extra reorderings of Relaxed accesses are not modelled.             *)
(***************************************************************************)
EXTENDS Integers, Sequences, FiniteSets, TLC

VARIABLES
    ctor,       \* with_capacity's argument and outcome: "none" before the call, then
                \* "ok" or "panic"
    chunks,     \* the chunks ever published; a ChunkPtr is an index, 0 is null
    chunk,      \* Table.chunk
    new_chunk,  \* Table.new_chunk (0: null)
    retired,    \* chunks handed to guard.defer_destroy, in order
    th,         \* per thread: program counter and the locals of the running call
    settled,    \* history: per user key, what a sequential map holds when known
    cfg         \* the run's workload (threads, map kind, keys, phase) and its build

vars == <<ctor, chunks, chunk, new_chunk, retired, th, settled, cfg>>

(***************************************************************************)
(* Bounds of the model.                                                    *)
(***************************************************************************)
WordBits   == 8     \* width of usize in the model
MaxInitCap == 4     \* with_capacity is called with 0..MaxInitCap
MaxConcCap == 2     \* the same, in the runs of two threads making any calls
MaxChunks  == 2     \* chunks ever published (initial one included)
MaxOps     == 2     \* calls per thread
MaxSeqOps  == 4     \* calls of the single thread of SpecSeq
MaxKeys    == 5     \* fresh keys of the disjoint-insert workload

(***************************************************************************)
(* Program constants.                                                      *)
(***************************************************************************)
EMPTY_KEY      == 0
SENTINEL_VALUE == 1
NUM_KEY_FIX    == 5
GrowSmallCap   == 2048   \* if old_cap < 2048
GrowShiftSmall == 4      \* { 4 }
GrowShiftLarge == 1      \* else { 1 }

Threads == {1, 2}

(***************************************************************************)
(* usize arithmetic.                                                       *)
(***************************************************************************)
RECURSIVE Pow2(_)
Pow2(n) == IF n = 0 THEN 1 ELSE 2 * Pow2(n - 1)

RECURSIVE BitAnd(_, _)
BitAnd(x, y) ==
    IF x = 0 \/ y = 0 THEN 0
    ELSE (x % 2) * (y % 2) + 2 * BitAnd(x \div 2, y \div 2)

RECURSIVE BitOr(_, _)
BitOr(x, y) ==
    IF x = 0 THEN y
    ELSE IF y = 0 THEN x
    ELSE (IF x % 2 = 1 \/ y % 2 = 1 THEN 1 ELSE 0) + 2 * BitOr(x \div 2, y \div 2)

WordMod == Pow2(WordBits)
AllOnes == WordMod - 1                              \* !0
val_bit_mask == ((AllOnes * 2) % WordMod) \div 2    \* !0 << 1 >> 1
inv_bit_mask == AllOnes - val_bit_mask              \* !val_bit_mask

\* a variant that forgets the test for zero
is_power_of_2_nozero(x) == BitAnd(x, x - 1) = 0

is_power_of_2(x) == (x # 0) /\ (BitAnd(x, x - 1) = 0)

occupation_limit(cap) == (cap * 70) \div 100

NewCap(old_cap) ==
    old_cap * Pow2(IF old_cap < GrowSmallCap THEN GrowShiftSmall ELSE GrowShiftLarge)

\* hash::<H> with H = PassthroughHasher: write_usize keeps the number, finish returns it
hash(num) == num

(***************************************************************************)
(* Value::new: the parsed state of a raw value word.                       *)
(***************************************************************************)
Value_new(val) ==
    IF val = 0 THEN [tag |-> "Empty", v |-> 0]
    ELSE LET actual_val == BitAnd(val, val_bit_mask)
             flag == BitAnd(val, inv_bit_mask)
         IN  IF flag # 0 THEN [tag |-> "Prime", v |-> actual_val]
             ELSE IF actual_val = 1 THEN [tag |-> "Sentinel", v |-> 0]
             ELSE [tag |-> "Val", v |-> actual_val]

IsLive(raw) == Value_new(raw).tag \in {"Val", "Prime"}

(***************************************************************************)
(* Chunk::alloc_chunk: zeroed entries and attachments.                     *)
(***************************************************************************)
alloc_chunk(capacity) ==
    [capacity   |-> capacity,
     occu_limit |-> occupation_limit(capacity),
     occupation |-> 0,
     key        |-> [i \in 0 .. capacity - 1 |-> 0],
     val        |-> [i \in 0 .. capacity - 1 |-> 0],
     att        |-> [i \in 0 .. capacity - 1 |-> 0]]

cap_mask(c) == c.capacity - 1

(***************************************************************************)
(* Option values: None is << >>, Some(x) is <<x>>.                         *)
(***************************************************************************)
None == << >>
Some(x) == <<x>>

\* the inputs of insert: the smallest and the largest payload a WordMap accepts (not
\* 0, not 1, top bit clear), and two objects
Payloads == {2, val_bit_mask}
Atts == {1, 2}

UNK == <<"unk">>
ABS == <<"abs">>
Held(v, a) == <<"val", v, a>>

NoRes == [tag |-> "none", v |-> 0, index |-> 0]

Idle ==
    [pc |-> "idle", op |-> "none", ukey |-> 0, key |-> 0, value |-> 0, att |-> 0,
     ret |-> None, nops |-> 0,
     chunk_ptr |-> 0, new_chunk_ptr |-> 0,
     idx |-> 0, count |-> 0, raw |-> 0, replaced |-> None,
     m_chunk |-> 0, m_key |-> 0, m_op |-> "none", m_val |-> 0, m_att |-> 0,
     m_ret |-> "none", res |-> NoRes,
     r_idx |-> 0, r_key |-> 0, r_raw |-> 0, r_att |-> 0, r_new |-> 0,
     r_entry |-> 0, effective_copy |-> 0, acc |-> << >>,
     exp |-> UNK, clean |-> FALSE, fwd |-> FALSE, snap |-> << >>]

(***************************************************************************)
(* The attachment hooks (ObjectAttachment; WordAttachment does nothing and *)
(* the model then skips the step).  erase drops a raw pointer, which       *)
(* leaves the object in place.                                             *)
(***************************************************************************)
att_set(att, index, att_value) == [att EXCEPT ![index] = att_value]
att_erase(att, index) == att

(***************************************************************************)
(* cas_value: the new value word and whether the exchange took place.      *)
(***************************************************************************)
\* a variant whose exchange always takes place
cas_ok_always(current, original) == TRUE

cas_ok(current, original) == current = original
cas_value(current, original, value) == IF cas_ok(current, original) THEN value ELSE current

(***************************************************************************)
(* modify_entry.  m_call enters it, m_return leaves it with a ModOutput,   *)
(* m_advance is "idx += 1; count += 1" and the loop test.                  *)
(***************************************************************************)
m_call(l, c, key, op, val, att, retpc) ==
    [l EXCEPT !.m_chunk = c, !.m_key = key, !.m_op = op, !.m_val = val, !.m_att = att,
              !.m_ret = retpc, !.idx = hash(key), !.count = 0, !.raw = 0,
              !.replaced = None, !.pc = "m_key"]


(***************************************************************************)
(* Table::insert: its locals and the code after modify_entry returns.      *)
(* debug_assert_ne!(new_chunk_ptr, chunk_ptr) panics in a build with debug *)
(* assertions and is absent from the others: when the two pointers are     *)
(* equal the call stops at "i_assert" ("r_assert" in remove), where the    *)
(* run settles which build it is.                                          *)
(***************************************************************************)
copying(l) == l.new_chunk_ptr # 0
modify_chunk(l) == IF copying(l) THEN l.new_chunk_ptr ELSE l.chunk_ptr

i_modify(l) ==
    m_call(l, modify_chunk(l), l.key, "Insert", BitAnd(l.value, val_bit_mask), l.att, "i_after")

\* the match on value_insertion.result and the "if copying" after it
i_result(l) ==
    LET r == l.res
        l2 == IF r.tag \in {"Replaced", "Fail"} THEN [l EXCEPT !.ret = Some(r.v)]
              ELSE [l EXCEPT !.ret = None]
    IN  IF r.tag \in {"Done", "Replaced", "Fail"} THEN
            IF copying(l) THEN
                IF l.new_chunk_ptr = l.chunk_ptr THEN [l2 EXCEPT !.pc = "i_assert"]
                ELSE m_call(l2, l.chunk_ptr, l.key, "Sentinel", 0, 0, "i_occ")
            ELSE [l2 EXCEPT !.pc = "i_occ"]
        ELSE IF r.tag = "Sentinel" THEN [l2 EXCEPT !.pc = "ret"]
        ELSE [l EXCEPT !.pc = "panic"]

(***************************************************************************)
(* Table::check_resize: the scan's bookkeeping.                             *)
(***************************************************************************)
need_resize(occupation, occu_limit) == occupation > occu_limit

\* a variant whose CAS of new_chunk always installs the chunk
swap_new_won_always(current) == TRUE

\* new_chunk.compare_and_set(Shared::null(), new_chunk_ptr): whether it installs
swap_new_won(current) == current = 0

\* a variant whose CAS of chunk always installs the new chunk
swap_old_won_always(current, old_chunk_ptr) == TRUE

\* chunk.compare_and_set(old_chunk_ptr, new_chunk_ptr): whether it installs
swap_old_won(current, old_chunk_ptr) == current = old_chunk_ptr

\* what check_resize returns when that CAS failed
SwapFailed == [tag |-> "SwapFailed", v |-> 0, index |-> 0]

cr_next(l, old_cap) ==
    IF l.r_idx + 1 < old_cap
    THEN [l EXCEPT !.r_idx = l.r_idx + 1, !.r_key = 0, !.r_raw = 0, !.r_att = 0,
                   !.r_entry = 0, !.res = NoRes, !.pc = "cr_key"]
    ELSE [l EXCEPT !.r_idx = 0, !.r_key = 0, !.r_raw = 0, !.r_att = 0,
                   !.r_entry = 0, !.res = NoRes, !.pc = "cr_add"]

primed_val(raw) == BitOr(raw, inv_bit_mask)

\* a variant that leaves the prime bit set
stripped_keep(primed) == primed

stripped(primed) == BitAnd(primed, val_bit_mask)

\* a variant that does not carry the attachment over
cr_attempt_noatt(l) ==
    m_call(l, l.r_new, l.r_key, "AttemptInsert", primed_val(l.r_raw), 0, "cr_after")

cr_attempt(l) ==
    m_call(l, l.r_new, l.r_key, "AttemptInsert", primed_val(l.r_raw), l.r_att, "cr_after")

\* a variant that takes the slot AttemptInsert failed on for its own
cr_result_takes_fail(l) ==
    IF l.res.tag \in {"Done", "Fail"}
    THEN [l EXCEPT !.r_entry = l.res.index, !.res = NoRes, !.pc = "cr_cas_old"]
    ELSE [l EXCEPT !.pc = "panic"]

\* the match on new_chunk_insertion.result
cr_result(l) ==
    IF l.res.tag = "Done" THEN [l EXCEPT !.r_entry = l.res.v, !.res = NoRes, !.pc = "cr_cas_old"]
    ELSE IF l.res.tag = "Fail" THEN cr_next(l, chunks[l.chunk_ptr].capacity)
    ELSE [l EXCEPT !.pc = "panic"]

(***************************************************************************)
(* Table::remove: the code after its first modify_entry returns.           *)
(***************************************************************************)
r_finish(l, ret) ==
    IF copying(l) THEN
        IF l.new_chunk_ptr = l.chunk_ptr THEN [l EXCEPT !.ret = ret, !.pc = "r_assert"]
        ELSE m_call([l EXCEPT !.ret = ret], l.chunk_ptr, l.key, "Sentinel", 0, 0, "ret")
    ELSE [l EXCEPT !.ret = ret, !.pc = "ret"]

\* the match on res.result after the first modify_entry
r_result(l) ==
    LET r == l.res IN
    IF r.tag \in {"Done", "Replaced"} THEN
        IF cfg.kind = "object" THEN [l EXCEPT !.pc = "r_att"]
        ELSE r_finish(l, Some(<<r.v, 0>>))
    ELSE IF r.tag = "NotFound" THEN m_call(l, l.chunk_ptr, l.key, "Empty", 0, 0, "r_after2")
    ELSE IF r.tag = "TableFull" THEN [l EXCEPT !.pc = "panic"]
    ELSE [l EXCEPT !.ret = None, !.pc = "ret"]

\* leaving modify_entry: the ModOutput goes to the caller, whose code up to its next
\* access to shared memory runs in the same step
m_return(l, tag, v, index) ==
    LET l2 == [l EXCEPT !.res = [tag |-> tag, v |-> v, index |-> index],
                        !.m_chunk = 0, !.m_key = 0, !.m_op = "none", !.m_val = 0,
                        !.m_att = 0, !.m_ret = "none", !.idx = 0, !.count = 0, !.raw = 0,
                        !.replaced = None]
    IN  CASE l.m_ret = "i_after" -> i_result(l2)
          [] l.m_ret = "i_occ" -> [l2 EXCEPT !.pc = "i_occ"]
          [] l.m_ret = "cr_after" -> cr_result(l2)
          [] l.m_ret = "r_after" -> r_result(l2)
          [] l.m_ret = "r_after2" -> [l2 EXCEPT !.pc = "r_after2"]
          [] l.m_ret = "ret" -> [l2 EXCEPT !.pc = "ret", !.res = NoRes]

m_budget(count, cap) == count <= cap

m_advance(l, i, cap) ==
    IF m_budget(l.count + 1, cap)
    THEN [l EXCEPT !.idx = i + 1, !.count = l.count + 1, !.raw = 0, !.pc = "m_key"]
    ELSE IF l.m_op \in {"Insert", "AttemptInsert"}
         THEN m_return(l, "TableFull", 0, 0)
         ELSE m_return(l, "NotFound", 0, 0)

\* what put_in_empty returns once the key is stored
put_in_empty_result(l, i) ==
    IF l.replaced # None THEN m_return(l, "Replaced", l.replaced[1], i)
    ELSE m_return(l, "Done", i, i)

\* the Empty operation leaves the Val/Prime arm with Replaced(v)
m_empty_result(l, v, i, won) == m_return(l, "Replaced", v, i)

modify_entry(t) ==
    LET l == th[t]
        c == chunks[l.m_chunk]
        i == BitAnd(l.idx, cap_mask(c))
        p == Value_new(l.raw)
    IN
    /\ l.pc \in {"m_key", "m_val", "m_set_sentinel", "m_tomb", "m_cas_empty",
                 "m_set_att", "m_store_key"}
    /\ UNCHANGED <<ctor, chunk, new_chunk, retired, settled, cfg>>
    /\ CASE l.pc = "m_key" ->
            /\ chunks' = chunks
            /\ th' = [th EXCEPT ![t] =
                 IF c.key[i] = l.m_key THEN [l EXCEPT !.idx = i, !.pc = "m_val"]
                 ELSE IF c.key[i] = EMPTY_KEY THEN
                     IF l.m_op = "Empty" THEN m_return(l, "Fail", 0, i)
                     ELSE [l EXCEPT !.idx = i, !.pc = "m_cas_empty"]
                 ELSE m_advance(l, i, c.capacity)]
       [] l.pc = "m_val" ->
            /\ chunks' = chunks
            /\ th' = [th EXCEPT ![t] =
                 LET val == Value_new(c.val[i]) IN
                 IF val.tag \in {"Val", "Prime"} THEN
                     IF l.m_op = "Sentinel" THEN [l EXCEPT !.raw = c.val[i], !.pc = "m_set_sentinel"]
                     ELSE IF l.m_op = "AttemptInsert" THEN m_return(l, "Fail", val.v, i)
                     ELSE [l EXCEPT !.raw = c.val[i], !.pc = "m_tomb"]
                 ELSE IF val.tag = "Empty" THEN m_advance(l, i, c.capacity)
                 ELSE m_return(l, "Sentinel", 0, i)]
       [] l.pc = "m_set_sentinel" ->
            /\ chunks' = [chunks EXCEPT ![l.m_chunk].val[i] = SENTINEL_VALUE,
                                        ![l.m_chunk].att = att_erase(@, i)]
            /\ th' = [th EXCEPT ![t] = m_return(l, "Done", i, i)]
       [] l.pc = "m_tomb" ->
            LET won == cas_ok(c.val[i], l.raw)
                l2 == IF won THEN [l EXCEPT !.replaced = Some(p.v)] ELSE l
            IN
            /\ chunks' = [chunks EXCEPT ![l.m_chunk].val[i] = cas_value(@, l.raw, 0),
                                        ![l.m_chunk].att = IF won THEN att_erase(@, i) ELSE @]
            /\ th' = [th EXCEPT ![t] =
                 IF l.m_op = "Empty" THEN m_empty_result(l2, p.v, i, won)
                 ELSE m_advance(l2, i, c.capacity)]
       [] l.pc = "m_cas_empty" ->
            LET target == IF l.m_op = "Sentinel" THEN SENTINEL_VALUE ELSE l.m_val
                won == cas_ok(c.val[i], 0)
            IN
            /\ chunks' = [chunks EXCEPT ![l.m_chunk].val[i] = cas_value(@, 0, target)]
            /\ th' = [th EXCEPT ![t] =
                 IF ~won THEN m_advance(l, i, c.capacity)
                 ELSE IF l.m_op # "Sentinel" /\ cfg.kind = "object"
                      THEN [l EXCEPT !.pc = "m_set_att"]
                      ELSE [l EXCEPT !.pc = "m_store_key"]]
       [] l.pc = "m_set_att" ->
            /\ chunks' = [chunks EXCEPT ![l.m_chunk].att = att_set(@, i, l.m_att)]
            /\ th' = [th EXCEPT ![t] = [l EXCEPT !.pc = "m_store_key"]]
       [] l.pc = "m_store_key" ->
            /\ chunks' = [chunks EXCEPT ![l.m_chunk].key[i] = l.m_key]
            /\ th' = [th EXCEPT ![t] = put_in_empty_result(l, i)]

(***************************************************************************)
(* Table::get with get_from_chunk.                                         *)
(***************************************************************************)
g_return(l, ret) == [l EXCEPT !.ret = ret, !.pc = "ret", !.idx = 0, !.count = 0, !.raw = 0,
                              !.chunk_ptr = 0]

\* get_from_chunk's loop test, "while counter < cap"
g_budget(counter, cap) == counter < cap

g_advance(l, i, cap) ==
    IF g_budget(l.count + 1, cap)
    THEN [l EXCEPT !.idx = i + 1, !.count = l.count + 1, !.pc = "g_key"]
    ELSE g_return(l, None)

\* a variant that gives up at the first slot holding another key
g_probe_noreprobe(l, k, i, cap) ==
    IF k = l.key THEN [l EXCEPT !.idx = i, !.pc = "g_val"] ELSE g_return(l, None)

\* get_from_chunk: what the probe does with the key word it loaded
g_probe(l, k, i, cap) ==
    IF k = l.key THEN [l EXCEPT !.idx = i, !.pc = "g_val"]
    ELSE IF k = EMPTY_KEY THEN g_return(l, None)
    ELSE g_advance(l, i, cap)

read_attachment == cfg.kind = "object"

get(t) ==
    LET l == th[t]
        c == chunks[l.chunk_ptr]
        i == BitAnd(l.idx, cap_mask(c))
    IN
    /\ l.pc \in {"g_load_chunk", "g_key", "g_val", "g_att", "g_new"}
    /\ UNCHANGED <<ctor, chunks, chunk, new_chunk, retired, settled, cfg>>
    /\ th' = [th EXCEPT ![t] =
         CASE l.pc = "g_load_chunk" ->
                [l EXCEPT !.chunk_ptr = chunk, !.idx = hash(l.key), !.count = 0, !.pc = "g_key"]
           [] l.pc = "g_key" -> g_probe(l, c.key[i], i, c.capacity)
           [] l.pc = "g_val" ->
                LET val == Value_new(c.val[i]) IN
                IF val.tag \in {"Prime", "Val"} THEN
                    IF read_attachment THEN [l EXCEPT !.raw = val.v, !.pc = "g_att"]
                    ELSE g_return(l, Some(<<val.v, None>>))
                ELSE IF val.tag = "Sentinel" THEN [l EXCEPT !.fwd = TRUE, !.pc = "g_new"]
                ELSE g_advance(l, i, c.capacity)
           [] l.pc = "g_att" -> g_return(l, Some(<<l.raw, Some(c.att[i])>>))
           [] l.pc = "g_new" ->
                IF new_chunk = 0 THEN g_return(l, None)
                ELSE [l EXCEPT !.chunk_ptr = new_chunk, !.idx = hash(l.key), !.count = 0,
                               !.pc = "g_key"]]

\* a debug assertion that does not hold: a panic with debug assertions, nothing without
debug_assert_fails(t, continued) ==
    \/ /\ cfg.build # "release"
       /\ cfg' = [cfg EXCEPT !.build = "debug"]
       /\ th' = [th EXCEPT ![t] = [th[t] EXCEPT !.pc = "panic"]]
    \/ /\ cfg.build # "debug"
       /\ cfg' = [cfg EXCEPT !.build = "release"]
       /\ th' = [th EXCEPT ![t] = continued]

(***************************************************************************)
(* Table::insert.                                                          *)
(***************************************************************************)
insert(t) ==
    LET l == th[t] IN
    /\ l.pc \in {"i_load_chunk", "i_load_new", "i_assert", "i_occ"}
    /\ UNCHANGED <<ctor, chunk, new_chunk, retired, settled>>
    /\ CASE l.pc = "i_load_chunk" ->
            /\ UNCHANGED <<chunks, cfg>>
            /\ th' = [th EXCEPT ![t] =
                 [l EXCEPT !.chunk_ptr = chunk, !.res = NoRes, !.snap = << >>,
                           !.pc = "i_load_new"]]
       [] l.pc = "i_load_new" ->
            /\ UNCHANGED <<chunks, cfg>>
            /\ th' = [th EXCEPT ![t] =
                 IF new_chunk = 0 THEN [l EXCEPT !.new_chunk_ptr = 0, !.pc = "cr_occ"]
                 ELSE i_modify([l EXCEPT !.new_chunk_ptr = new_chunk])]
       [] l.pc = "i_assert" ->
            /\ chunks' = chunks
            /\ debug_assert_fails(t, m_call(l, l.chunk_ptr, l.key, "Sentinel", 0, 0, "i_occ"))
       [] l.pc = "i_occ" ->
            /\ UNCHANGED cfg
            /\ chunks' = [chunks EXCEPT ![modify_chunk(l)].occupation = @ + 1]
            /\ th' = [th EXCEPT ![t] = [l EXCEPT !.pc = "ret", !.res = NoRes]]


(***************************************************************************)
(* Table::check_resize, called by insert when new_chunk was null.          *)
(***************************************************************************)
\* the ghost copy of the old chunk, kept when the migrating thread runs alone
Snapshot(t, c) == IF cfg.threads = {t} THEN <<c>> ELSE << >>

check_resize(t) ==
    LET l == th[t]
        old == chunks[l.chunk_ptr]
        new == chunks[l.r_new]
    IN
    /\ l.pc \in {"cr_occ", "cr_swap_new", "cr_key", "cr_val", "cr_att",
                 "cr_cas_old", "cr_strip", "cr_add", "cr_swap_old", "cr_defer",
                 "cr_null"}
    /\ UNCHANGED <<ctor, settled, cfg>>
    /\ CASE l.pc = "cr_occ" ->
            /\ UNCHANGED <<chunks, chunk, new_chunk, retired>>
            /\ th' = [th EXCEPT ![t] =
                 IF need_resize(old.occupation, old.occu_limit)
                 THEN [l EXCEPT !.pc = "cr_swap_new"]
                 ELSE i_modify(l)]
       [] l.pc = "cr_swap_new" ->
            IF swap_new_won(new_chunk) THEN
                /\ Len(chunks) < cfg.maxchunks
                /\ chunks' = Append(chunks, alloc_chunk(NewCap(old.capacity)))
                /\ new_chunk' = Len(chunks) + 1
                /\ UNCHANGED <<chunk, retired>>
                /\ th' = [th EXCEPT ![t] =
                     [l EXCEPT !.r_new = Len(chunks) + 1, !.r_idx = 0, !.effective_copy = 0,
                               !.snap = Snapshot(t, old), !.pc = "cr_key"]]
            ELSE
                /\ UNCHANGED <<chunks, chunk, new_chunk, retired>>
                /\ th' = [th EXCEPT ![t] =
                     [l EXCEPT !.chunk_ptr = 0, !.res = SwapFailed, !.pc = "i_load_chunk"]]
       [] l.pc = "cr_key" ->
            /\ UNCHANGED <<chunks, chunk, new_chunk, retired>>
            /\ th' = [th EXCEPT ![t] =
                 IF old.key[l.r_idx] # EMPTY_KEY
                 THEN [l EXCEPT !.r_key = old.key[l.r_idx], !.pc = "cr_val"]
                 ELSE cr_next(l, old.capacity)]
       [] l.pc = "cr_val" ->
            /\ UNCHANGED <<chunks, chunk, new_chunk, retired>>
            /\ th' = [th EXCEPT ![t] =
                 LET value == Value_new(old.val[l.r_idx])
                     l2 == [l EXCEPT !.r_raw = old.val[l.r_idx]]
                 IN  IF value.tag = "Val" THEN
                         IF cfg.kind = "object" THEN [l2 EXCEPT !.pc = "cr_att"]
                         ELSE cr_attempt(l2)
                     ELSE IF value.tag = "Prime" THEN [l EXCEPT !.pc = "panic"]
                     ELSE cr_next(l, old.capacity)]
       [] l.pc = "cr_att" ->
            /\ UNCHANGED <<chunks, chunk, new_chunk, retired>>
            /\ th' = [th EXCEPT ![t] = cr_attempt([l EXCEPT !.r_att = old.att[l.r_idx]])]
       [] l.pc = "cr_cas_old" ->
            /\ UNCHANGED <<chunk, new_chunk, retired>>
            /\ chunks' = [chunks EXCEPT ![l.chunk_ptr].val[l.r_idx] =
                                            cas_value(@, l.r_raw, SENTINEL_VALUE)]
            /\ th' = [th EXCEPT ![t] =
                 IF cas_ok(old.val[l.r_idx], l.r_raw) THEN [l EXCEPT !.pc = "cr_strip"]
                 ELSE [l EXCEPT !.r_key = 0, !.r_raw = 0, !.r_att = 0, !.r_entry = 0,
                                !.res = NoRes, !.pc = "cr_key"]]
       [] l.pc = "cr_strip" ->
            LET primed == primed_val(l.r_raw)
                won == cas_ok(new.val[l.r_entry], primed)
            IN
            /\ UNCHANGED <<chunk, new_chunk, retired>>
            /\ chunks' = [chunks EXCEPT
                    ![l.r_new].val[l.r_entry] = cas_value(@, primed, stripped(primed)),
                    ![l.chunk_ptr].att = IF won THEN att_erase(@, l.r_idx) ELSE @]
            /\ th' = [th EXCEPT ![t] =
                 cr_next([l EXCEPT !.effective_copy = IF won THEN @ + 1 ELSE @], old.capacity)]
       [] l.pc = "cr_add" ->
            /\ UNCHANGED <<chunk, new_chunk, retired>>
            /\ chunks' = [chunks EXCEPT ![l.r_new].occupation = @ + l.effective_copy]
            /\ th' = [th EXCEPT ![t] = [l EXCEPT !.effective_copy = 0, !.pc = "cr_swap_old"]]
       [] l.pc = "cr_swap_old" ->
            /\ UNCHANGED <<chunks, new_chunk, retired>>
            /\ chunk' = IF swap_old_won(chunk, l.chunk_ptr) THEN l.r_new ELSE chunk
            /\ th' = [th EXCEPT ![t] =
                 IF swap_old_won(chunk, l.chunk_ptr) THEN [l EXCEPT !.pc = "cr_defer"]
                 ELSE [l EXCEPT !.pc = "panic"]]
       [] l.pc = "cr_defer" ->
            /\ UNCHANGED <<chunks, chunk, new_chunk>>
            /\ retired' = Append(retired, l.chunk_ptr)
            /\ th' = [th EXCEPT ![t] = [l EXCEPT !.pc = "cr_null"]]
       [] l.pc = "cr_null" ->
            /\ UNCHANGED <<chunks, chunk, retired>>
            /\ new_chunk' = 0
            /\ th' = [th EXCEPT ![t] =
                 [l EXCEPT !.chunk_ptr = 0, !.r_new = 0, !.pc = "i_load_chunk"]]

(***************************************************************************)
(* Table::remove.                                                          *)
(***************************************************************************)
\* what new_chunk.attachment.get(index) can yield: the slot of the new chunk, or,
\* through a null new_chunk_ptr, any object
r_new_att(l, index) ==
    IF cfg.kind # "object" THEN {0}
    ELSE IF l.new_chunk_ptr = 0 THEN {0} \cup Atts
    ELSE {chunks[l.new_chunk_ptr].att[index]}

remove(t) ==
    LET l == th[t] IN
    /\ l.pc \in {"r_load_new", "r_load_chunk", "r_att", "r_assert", "r_after2"}
    /\ UNCHANGED <<ctor, chunks, chunk, new_chunk, retired, settled>>
    /\ CASE l.pc = "r_load_new" ->
            /\ UNCHANGED cfg
            /\ th' = [th EXCEPT ![t] = [l EXCEPT !.new_chunk_ptr = new_chunk, !.pc = "r_load_chunk"]]
       [] l.pc = "r_load_chunk" ->
            /\ UNCHANGED cfg
            /\ th' = [th EXCEPT ![t] =
                 LET l2 == [l EXCEPT !.chunk_ptr = chunk] IN
                 m_call(l2, modify_chunk(l2), l.key, "Empty", 0, 0, "r_after")]
       [] l.pc = "r_att" ->
            /\ UNCHANGED cfg
            /\ th' = [th EXCEPT ![t] =
                 r_finish(l, Some(<<l.res.v, chunks[modify_chunk(l)].att[l.res.index]>>))]
       [] l.pc = "r_assert" ->
            debug_assert_fails(t, m_call(l, l.chunk_ptr, l.key, "Sentinel", 0, 0, "ret"))
       [] l.pc = "r_after2" ->
            /\ UNCHANGED cfg
            /\ IF l.res.tag \in {"Done", "Replaced"} THEN
                   \/ \E a \in r_new_att(l, 0) :
                        th' = [th EXCEPT ![t] = [l EXCEPT !.ret = Some(<<l.res.v, a>>), !.pc = "ret"]]
                   \/ /\ cfg.kind = "object" /\ l.new_chunk_ptr = 0
                      /\ th' = [th EXCEPT ![t] = [l EXCEPT !.pc = "panic"]]
               ELSE th' = [th EXCEPT ![t] = [l EXCEPT !.ret = None, !.pc = "ret"]]

(***************************************************************************)
(* Table::entries with all_from_chunk.  count is 0 while the chunk loaded  *)
(* from `chunk` is scanned and 1 for the one loaded from `new_chunk`.      *)
(***************************************************************************)
\* all_from_chunk's "idx += 1; counter += 1", the loop test and what follows the loop
e_next(l, cap) ==
    IF l.idx + 1 < cap THEN [l EXCEPT !.idx = l.idx + 1, !.raw = 0, !.r_key = 0, !.pc = "e_key"]
    ELSE IF l.count = 0 /\ l.chunk_ptr # l.new_chunk_ptr
         THEN [l EXCEPT !.idx = 0, !.raw = 0, !.r_key = 0, !.m_chunk = 0, !.pc = "e_new"]
         ELSE [l EXCEPT !.idx = 0, !.raw = 0, !.r_key = 0, !.m_chunk = 0, !.count = 0,
                        !.ret = l.acc, !.pc = "ret"]

\* what all_from_chunk can collect through a null chunk pointer, when it returns
e_garbage == {<< >>} \cup {<<<<NUM_KEY_FIX, p, 0>>>> : p \in Payloads}

entries(t) ==
    LET l == th[t]
        c == chunks[l.m_chunk]
    IN
    /\ l.pc \in {"e_load_chunk", "e_load_new", "e_key", "e_val", "e_att", "e_new"}
    /\ UNCHANGED <<ctor, chunks, chunk, new_chunk, retired, settled, cfg>>
    /\ CASE l.pc = "e_load_chunk" ->
            th' = [th EXCEPT ![t] = [l EXCEPT !.chunk_ptr = chunk, !.pc = "e_load_new"]]
       [] l.pc = "e_load_new" ->
            th' = [th EXCEPT ![t] =
                     [l EXCEPT !.new_chunk_ptr = new_chunk, !.m_chunk = l.chunk_ptr,
                               !.idx = 0, !.count = 0, !.acc = << >>, !.pc = "e_key"]]
       [] l.pc = "e_key" ->
            th' = [th EXCEPT ![t] =
                     IF c.key[l.idx] # EMPTY_KEY
                     THEN [l EXCEPT !.r_key = c.key[l.idx], !.pc = "e_val"]
                     ELSE e_next(l, c.capacity)]
       [] l.pc = "e_val" ->
            th' = [th EXCEPT ![t] =
                     LET val == Value_new(c.val[l.idx]) IN
                     IF val.tag \in {"Val", "Prime"} THEN
                         IF cfg.kind = "object" THEN [l EXCEPT !.raw = val.v, !.pc = "e_att"]
                         ELSE e_next([l EXCEPT !.acc = Append(@, <<l.r_key, val.v, 0>>)],
                                     c.capacity)
                     ELSE e_next(l, c.capacity)]
       [] l.pc = "e_att" ->
            th' = [th EXCEPT ![t] =
                     e_next([l EXCEPT !.acc = Append(@, <<l.r_key, l.raw, c.att[l.idx]>>)],
                            c.capacity)]
       [] l.pc = "e_new" ->
            IF l.new_chunk_ptr # 0
            THEN th' = [th EXCEPT ![t] =
                          [l EXCEPT !.m_chunk = l.new_chunk_ptr, !.idx = 0, !.count = 1,
                                    !.pc = "e_key"]]
            ELSE \* &*new_chunk through a null pointer
                 \/ th' = [th EXCEPT ![t] = [l EXCEPT !.pc = "panic"]]
                 \/ \E g \in e_garbage :
                       th' = [th EXCEPT ![t] = [l EXCEPT !.ret = l.acc \o g, !.pc = "ret"]]

(***************************************************************************)
(* with_capacity, and the calls of the facades (WordMap, ObjectMap).       *)
(***************************************************************************)
with_capacity ==
    /\ ctor.st = "none"
    /\ UNCHANGED <<new_chunk, retired, th, settled, cfg>>
    /\ \E cap \in 0 .. cfg.maxcap :
         IF is_power_of_2(cap)
         THEN /\ chunks' = <<alloc_chunk(cap)>>
              /\ chunk' = 1
              /\ ctor' = [st |-> "ok", cap |-> cap]
         ELSE /\ ctor' = [st |-> "panic", cap |-> cap]
              /\ UNCHANGED <<chunks, chunk>>

InProg(u) == th[u].pc # "idle"
Running(u) == th[u].pc \notin {"idle", "panic"}

OnKey(t, uk) == {u \in Threads \ {t} : InProg(u) /\ th[u].ukey = uk}
Mutators(t, uk) == {u \in OnKey(t, uk) : th[u].op \in {"insert", "remove"}}
Inserters(t, uk) == {u \in OnKey(t, uk) : th[u].op = "insert"}

\* the effect of a call of op on uk on the history kept for the calls in progress
Overlap(l, op) ==
    IF op \in {"get", "entries"} THEN l
    ELSE IF op = "insert" THEN [l EXCEPT !.exp = UNK, !.clean = FALSE]
    ELSE IF l.op = "get" THEN [l EXCEPT !.exp = IF @ = ABS THEN ABS ELSE UNK]
    ELSE IF l.op = "remove" THEN [l EXCEPT !.exp = UNK]
    ELSE [l EXCEPT !.exp = UNK, !.clean = FALSE]

Start(t, op, uk, value, att) ==
    [Idle EXCEPT !.pc = CASE op = "get" -> "g_load_chunk"
                        [] op = "insert" -> "i_load_chunk"
                        [] op = "remove" -> "r_load_new"
                        [] op = "entries" -> "e_load_chunk",
                 !.op = op, !.ukey = uk, !.key = uk + NUM_KEY_FIX,
                 !.value = value, !.att = att, !.nops = th[t].nops,
                 !.exp = IF op = "get" \/ Mutators(t, uk) = {} THEN settled[uk] ELSE UNK,
                 !.clean = CASE op \in {"get", "entries"} -> FALSE
                             [] op = "insert" -> Mutators(t, uk) = {}
                             [] op = "remove" -> Inserters(t, uk) = {}]

Invoke(t, op, uk, value, att) ==
    /\ th' = [u \in Threads |->
                IF u = t THEN Start(t, op, uk, value, att)
                ELSE IF u \in OnKey(t, uk) THEN Overlap(th[u], op)
                ELSE th[u]]
    /\ settled' = [settled EXCEPT ![uk] =
                     IF op \in {"get", "entries"} THEN @
                     ELSE IF op = "insert" THEN UNK
                     ELSE IF @ = ABS THEN ABS ELSE UNK]

\* the arguments of insert: WordMap passes the payload and (), ObjectMap !0 and the
\* object; a workload either draws them freely or has each thread write its own
InsertArgs(t) ==
    IF cfg.kind = "word"
    THEN {<<p, 0>> : p \in IF cfg.vals = "free" THEN Payloads ELSE {1 + t}}
    ELSE {<<AllOnes, a>> : a \in IF cfg.vals = "free" THEN Atts ELSE {t}}

\* the disjoint workload hands out its keys in this order: 0, 4, 1, 2, 3, 5, ...
\* (the first two collide in a chunk of 4 slots)
Rank(uk) == IF uk = 0 THEN 0 ELSE IF uk = 4 THEN 1 ELSE IF uk < 4 THEN uk + 1 ELSE uk

Joined(t) == \A u \in Threads \ {t} : ~Running(u)

Call(t) ==
    /\ ctor.st = "ok"
    /\ t \in cfg.threads
    /\ th[t].pc = "idle"
    /\ UNCHANGED <<ctor, chunks, chunk, new_chunk, retired>>
    /\ IF cfg.load = "any" THEN
           /\ th[t].nops < cfg.maxops[t]
           /\ cfg' = cfg
           /\ \E uk \in cfg.keys, op \in cfg.menu[t] :
                IF op = "insert"
                THEN \E a \in InsertArgs(t) : Invoke(t, op, uk, a[1], a[2])
                ELSE Invoke(t, op, uk, 0, 0)
       ELSE
           \* disjoint inserts, then, after the join, the reads of the test's main thread
           \E uk \in cfg.keys, op \in {"get", "insert"} :
                IF op = "insert"
                THEN /\ ~cfg.joined
                     /\ th[t].nops < cfg.maxops[t]
                     /\ settled[uk] = ABS
                     /\ \A k2 \in cfg.keys : Rank(k2) < Rank(uk) => settled[k2] # ABS
                     /\ cfg' = cfg
                     /\ \E a \in InsertArgs(t) : Invoke(t, op, uk, a[1], a[2])
                ELSE /\ Joined(t)
                     /\ t = 1
                     /\ cfg' = [cfg EXCEPT !.joined = TRUE]
                     /\ Invoke(t, op, uk, 0, 0)

Return(t) ==
    LET l == th[t] IN
    /\ l.pc = "ret"
    /\ UNCHANGED <<ctor, chunks, chunk, new_chunk, retired, cfg>>
    /\ th' = [th EXCEPT ![t] =
                [Idle EXCEPT !.nops = IF cfg.joined THEN l.nops ELSE l.nops + 1]]
    /\ settled' = [settled EXCEPT ![l.ukey] =
                     IF l.op = "insert" /\ l.clean
                     THEN Held(BitAnd(l.value, val_bit_mask), l.att)
                     ELSE IF l.op = "remove" /\ l.clean THEN ABS
                     ELSE @]

(***************************************************************************)
(* Specifications.                                                         *)
(***************************************************************************)
Config(kind, load, vals, keys, menu, maxops, maxcap) ==
    [threads |-> {t \in Threads : maxops[t] > 0}, kind |-> kind, load |-> load,
     vals |-> vals, keys |-> keys, menu |-> menu, maxops |-> maxops, maxcap |-> maxcap,
     maxchunks |-> MaxChunks, joined |-> FALSE, build |-> "any"]

Start0(configs) ==
    /\ ctor = [st |-> "none", cap |-> 0]
    /\ chunks = << >>
    /\ chunk = 0
    /\ new_chunk = 0
    /\ retired = << >>
    /\ th = [t \in Threads |-> Idle]
    /\ cfg \in configs
    /\ settled = [k \in cfg.keys |-> ABS]

Kinds == {"word", "object"}
Ops == {"get", "insert", "remove"}
SeqKeys == {0, 1, 16}
ConcKeys == {0, 16}

\* two threads: thread 1 inserts (it fills the table and migrates it), thread 2 makes
\* any calls
Init ==
    Start0({Config(k, "any", "thread", ConcKeys, <<{"insert"}, Ops>>,
                   <<MaxOps, MaxOps>>, MaxConcCap) : k \in Kinds})

\* one thread, any calls
InitSeq ==
    Start0({Config(k, "any", "free", SeqKeys, <<Ops, Ops>>, <<MaxSeqOps, 0>>, MaxInitCap) :
              k \in Kinds})

\* two threads inserting pairwise distinct keys, then reads after the join
InitDisjoint ==
    Start0({Config("word", "disjoint", "thread", 0 .. MaxKeys - 1, <<Ops, Ops>>,
                   <<MaxKeys - 1, MaxKeys - 1>>, MaxInitCap)})

\* two threads on a WordMap of one slot, with room for one more chunk: a second
\* migration can start
InitStale ==
    Start0({[Config("word", "any", "thread", ConcKeys, <<{"insert"}, Ops>>,
                    <<MaxOps, MaxOps>>, MaxConcCap - 1)
               EXCEPT !.maxchunks = MaxChunks + 1]})

\* a WordMap of one slot that thread 1 fills, with inserts of one key, until its
\* second chunk is over its limit too, while thread 2 makes one call
InitRefill ==
    Start0({[Config("word", "any", "thread", {0}, <<{"insert"}, {"get", "remove"}>>,
                    <<occupation_limit(NewCap(MaxConcCap - 1)) + MaxOps + 1, MaxOps - 1>>,
                    MaxConcCap - 1)
               EXCEPT !.maxchunks = MaxChunks + 1]})

\* one thread, any calls, entries() among them
InitEntries ==
    Start0({Config(k, "any", "free", ConcKeys, <<Ops \cup {"entries"}, Ops>>,
                   <<MaxSeqOps - 1, 0>>, MaxConcCap) : k \in Kinds})

Next ==
    \/ with_capacity
    \/ \E t \in Threads :
         \/ Call(t)
         \/ get(t)
         \/ insert(t)
         \/ remove(t)
         \/ modify_entry(t)
         \/ check_resize(t)
         \/ Return(t)

NextDisjoint ==
    \/ with_capacity
    \/ \E t \in Threads :
         \/ Call(t)
         \/ get(t)
         \/ insert(t)
         \/ modify_entry(t)
         \/ check_resize(t)
         \/ Return(t)

NextEntries == Next \/ \E t \in Threads : entries(t)

Spec == Init /\ [][Next]_vars
SpecSeq == InitSeq /\ [][Next]_vars
SpecDisjoint == InitDisjoint /\ [][NextDisjoint]_vars
SpecStale == InitStale /\ [][Next]_vars
SpecRefill == InitRefill /\ [][Next]_vars
SpecEntries == InitEntries /\ [][NextEntries]_vars

\* the steps of the call thread t is making
Step(t) ==
    get(t) \/ insert(t) \/ remove(t) \/ modify_entry(t) \/ check_resize(t) \/ Return(t)

\* thread 2 keeps taking the steps of its call; thread 1 may stop anywhere, for ever
SpecStall == InitStale /\ [][Next]_vars /\ WF_vars(Step(2))

(***************************************************************************)
(* Properties.  A call's exp is what a sequential map holds for its key    *)
(* when the call starts, UNK when calls that overlap it leave that open.   *)
(***************************************************************************)
Returned(t, op) == th[t].pc = "ret" /\ th[t].op = op
IsHeld(e) == e # UNK /\ e # ABS
Alone(t) == cfg.threads = {t}

\* what a sequential map answers to the call
SeqAnswer(l) ==
    IF l.exp = ABS THEN None
    ELSE CASE l.op = "get" ->
                Some(<<l.exp[2], IF read_attachment THEN Some(l.exp[3]) ELSE None>>)
           [] l.op = "remove" -> Some(<<l.exp[2], l.exp[3]>>)
           [] l.op = "insert" -> Some(l.exp[2])

Slots(c) == 0 .. c.capacity - 1
\* the key/payload pairs of the slots whose value is Val or Prime
LivePairs(c) == {<<c.key[i], Value_new(c.val[i]).v>> :
                    i \in {j \in Slots(c) : c.key[j] # EMPTY_KEY /\ IsLive(c.val[j])}}
SlotsOf(c, key) == {i \in Slots(c) : c.key[i] = key}
IsPow2(n) == \E e \in 0 .. WordBits : n = Pow2(e)

\* C1: single-threaded WordMap calls return what a sequential map returns: get(k) the
\* payload of the latest insert not followed by a remove, else absent; remove(k) that
\* payload or absent; insert(k, _) absent for a new key and the prior payload
\* otherwise; no call panics, across resizes.
C1_SeqEquivalence ==
    \A t \in Threads :
        (cfg.kind = "word" /\ Alone(t)) =>
            /\ th[t].pc # "panic"
            /\ th[t].pc = "ret" => (th[t].exp # UNK /\ th[t].ret = SeqAnswer(th[t]))

\* C1 witness: after a resize, a get returned a payload as the thread's last call
C1_Witness ==
    /\ cfg.kind = "word" /\ Alone(1)
    /\ Len(chunks) = 2 /\ retired # << >>
    /\ Returned(1, "get") /\ th[1].ret # None
    /\ th[1].nops = MaxSeqOps - 1

\* C2: when check_resize ran alone and returned Done, the chunk in `chunk` holds
\* exactly the keys that were live in the old chunk, with the same payloads, no prime
\* bit and no tombstoned key, and new_chunk is null again.
C2_GrowthPreserves ==
    \A t \in Threads :
        (th[t].pc = "i_load_chunk" /\ th[t].snap # << >>) =>
            LET old == th[t].snap[1]
                cur == chunks[chunk]
            IN  /\ new_chunk = 0
                /\ chunk = Len(chunks)
                /\ LivePairs(cur) = LivePairs(old)
                /\ \A i \in Slots(cur) :
                      /\ Value_new(cur.val[i]).tag \in {"Empty", "Val"}
                      /\ cur.key[i] # EMPTY_KEY => cur.val[i] # 0 /\ SlotsOf(cur, cur.key[i]) = {i}

\* C2 witness: check_resize returned Done for an old chunk that held a live key and
\* a tombstoned one
C2_Witness ==
    /\ th[1].pc = "i_load_chunk" /\ th[1].snap # << >>
    /\ \E i, j \in Slots(th[1].snap[1]) :
          /\ th[1].snap[1].key[i] # EMPTY_KEY /\ th[1].snap[1].val[i] = 0
          /\ IsLive(th[1].snap[1].val[j])
    /\ LivePairs(chunks[chunk]) # {}

\* C3: once a remove(k) has returned with no insert(k, _) concurrent with it or later,
\* a get(k) that starts afterwards returns absent.
C3_RemoveAbsence ==
    \A t \in Threads : (Returned(t, "get") /\ th[t].exp = ABS) => th[t].ret = None

\* C4: threads insert pairwise distinct keys while a migration runs; after all have
\* finished, get returns for every inserted key the payload inserted for it (in the
\* runs where no debug assertion failed, whatever the build).
C4_NoInsertLost ==
    \A t \in Threads :
        (cfg.load = "disjoint" /\ cfg.joined /\ Len(chunks) > 1 /\ cfg.build = "any"
            /\ Returned(t, "get") /\ IsHeld(th[t].exp)) =>
                th[t].ret = Some(<<th[t].exp[2], None>>)

\* the keys whose insert has been called
Inserted == {uk \in cfg.keys : settled[uk] # ABS}
NoResizeLoad ==
    /\ cfg.load = "disjoint" /\ ctor.st = "ok"
    /\ Cardinality(Inserted) <= chunks[1].occu_limit

\* C5: threads insert pairwise distinct keys and occupation never exceeds occu_limit:
\* no resize starts, no insert panics (TableFull), every insert returns absent, every
\* inserted key sits in exactly one slot with its payload, and after the join get
\* returns that payload.
C5_DisjointWrites ==
    NoResizeLoad =>
        /\ Len(chunks) = 1 /\ new_chunk = 0
        /\ chunks[1].occupation <= chunks[1].occu_limit
        /\ \A t \in Threads :
              /\ th[t].pc # "panic"
              /\ Returned(t, "insert") => th[t].ret = None
              /\ (Returned(t, "get") /\ IsHeld(th[t].exp)) =>
                    th[t].ret = Some(<<th[t].exp[2], None>>)
        /\ \A uk \in cfg.keys :
              IsHeld(settled[uk]) =>
                 \E i \in Slots(chunks[1]) :
                    /\ SlotsOf(chunks[1], uk + NUM_KEY_FIX) = {i}
                    /\ chunks[1].val[i] = settled[uk][2]

\* C5 witness: two inserts raced for slot 1 of a chunk of 4 slots, the call that came
\* second won it, and after the join get returned the payload of the displaced key
C5_Witness ==
    /\ NoResizeLoad /\ cfg.joined
    /\ chunks[1].capacity = 4
    /\ chunks[1].key[1] = 4 + NUM_KEY_FIX /\ chunks[1].key[2] = 0 + NUM_KEY_FIX
    /\ chunks[1].val[1] # chunks[1].val[2]
    /\ Returned(1, "get") /\ th[1].ukey = 0 /\ th[1].ret # None

\* C6: insert(k, v) has returned and no other call on k follows: a get(k) that begins
\* after the return yields v (here: a get that did not meet a Sentinel).
C6_InsertVisible ==
    \A t \in Threads :
        (Returned(t, "get") /\ ~th[t].fwd /\ IsHeld(th[t].exp)) =>
            (th[t].ret # None /\ th[t].ret[1][1] = th[t].exp[2])

\* C7: a get(k) that read Sentinel for k in the chunk it loaded from `chunk`, k live
\* and not being removed, returns k's payload and never absent.
C7_SentinelForward ==
    \A t \in Threads :
        (Returned(t, "get") /\ th[t].fwd /\ IsHeld(th[t].exp)) =>
            (th[t].ret # None /\ th[t].ret[1][1] = th[t].exp[2])

\* C8: on an object map, get(k) returns the object passed to the insert(k, obj) whose
\* entry it reads, also after the entry was migrated.
C8_AttachmentFidelity ==
    \A t \in Threads :
        (cfg.kind = "object" /\ Alone(t) /\ Returned(t, "get") /\ IsHeld(th[t].exp)) =>
            th[t].ret = Some(<<th[t].exp[2], Some(th[t].exp[3])>>)

\* C8 witness: get returned the second object for a key that the migrator copied
C8_Witness ==
    /\ cfg.kind = "object" /\ Alone(1)
    /\ Len(chunks) = 2 /\ chunk = 2
    /\ Returned(1, "get") /\ th[1].ret # None /\ th[1].ret[1][2] = Some(2)
    /\ SlotsOf(chunks[1], th[1].key) # {}
    /\ \E i \in SlotsOf(chunks[1], th[1].key) : Value_new(chunks[1].val[i]).tag = "Sentinel"

\* C9: in every reachable state every chunk has 0 <= occupation <= capacity.
C9_OccupancyBound ==
    \A c \in 1 .. Len(chunks) :
        chunks[c].occupation >= 0 /\ chunks[c].occupation <= chunks[c].capacity

\* with_capacity panics for every argument that is not a power of two
CtorRejects == (ctor.st # "none" /\ ~IsPow2(ctor.cap)) => ctor.st = "panic"

\* C10 as amended: with_capacity fails for every cap that is not a power of two, and
\* every chunk ever installed has a capacity that is a power of two and at least 1.
C10_CapacityPow2 ==
    /\ CtorRejects
    /\ \A c \in 1 .. Len(chunks) : IsPow2(chunks[c].capacity) /\ chunks[c].capacity >= 1

\* C10 as stated: with_capacity fails for every cap that is not a power of two, and
\* every chunk ever installed has a capacity that is a power of two and at least 2.
C10_CapacityAtLeast2 ==
    /\ CtorRejects
    /\ \A c \in 1 .. Len(chunks) : IsPow2(chunks[c].capacity) /\ chunks[c].capacity >= 2

\* C10 witness: a table built with capacity 1 was resized to 16 slots
C10_Witness ==
    /\ ctor = [st |-> "ok", cap |-> 1]
    /\ Len(chunks) = 2 /\ chunk = 2
    /\ chunks[1].capacity = 1 /\ chunks[2].capacity = 16

\* the chunk being migrated and the chunk it is migrated into, while a migration is in
\* flight
Migrating == ctor.st = "ok" /\ new_chunk # 0 /\ new_chunk # chunk
\* thread t takes the step: its program counter or its locals change (its history
\* fields also change when another thread calls)
Locals(l) == [l EXCEPT !.exp = UNK, !.clean = FALSE, !.fwd = FALSE, !.snap = << >>]
Steps(t) == Locals(th'[t]) # Locals(th[t])
\* the slot modify_entry is looking at
m_slot(l) == BitAnd(l.idx, cap_mask(chunks[l.m_chunk]))

\* C14: in every chunk a slot's key word, once non-zero, never changes again, under
\* any interleaving of inserts, removes and migration.
C14_KeyWriteOnce ==
    [][\A c \in 1 .. Len(chunks) : \A i \in Slots(chunks[c]) :
          chunks[c].key[i] # EMPTY_KEY => chunks'[c].key[i] = chunks[c].key[i]]_vars

\* C15: whenever no migration is in flight (new_chunk is null) the chunk in `chunk`
\* holds no Prime value, and the migrator never reads a Prime value from the chunk it
\* scans.
C15_NoStrayPrime ==
    /\ (ctor.st = "ok" /\ new_chunk = 0) =>
          \A i \in Slots(chunks[chunk]) : Value_new(chunks[chunk].val[i]).tag # "Prime"
    /\ \A t \in Threads :
          th[t].pc = "cr_val" =>
             Value_new(chunks[th[t].chunk_ptr].val[th[t].r_idx]).tag # "Prime"

\* C16: at every instant of a migration, a slot of the old chunk that holds key k with
\* value Sentinel has a slot with key k in the new chunk.
C16_SentinelSuccessor ==
    Migrating =>
        \A i \in Slots(chunks[chunk]) :
            (chunks[chunk].key[i] # EMPTY_KEY /\ chunks[chunk].val[i] = SENTINEL_VALUE) =>
                SlotsOf(chunks[new_chunk], chunks[chunk].key[i]) # {}

\* C17: an Empty operation of modify_entry returns Replaced(v) only when its own CAS
\* installed the tombstone (so a remove whose CAS lost to another remove or to the
\* migrator's Sentinel CAS does not report success).
C17_TombstoneOwner ==
    [][\A t \in Threads :
          (th[t].pc = "m_tomb" /\ th[t].m_op = "Empty" /\ Steps(t)
              /\ th'[t].res.tag = "Replaced") =>
                cas_ok(chunks[th[t].m_chunk].val[m_slot(th[t])], th[t].raw)]_vars

\* C18: a remove(k) that runs while a migration is in flight, with k live and no other
\* call changing k, returns k's payload (also when k is not yet copied).
C18_RemoveUnmigrated ==
    \A t \in Threads :
        (Returned(t, "remove") /\ copying(th[t]) /\ IsHeld(th[t].exp)) =>
            (th[t].ret # None /\ th[t].ret[1][1] = th[t].exp[2])

\* C20: when modify_entry with AttemptInsert finds its key holding a Live or Prime
\* value, it leaves every slot of every chunk unchanged and the migrator goes on to
\* the next slot of the old chunk without writing Sentinel.
C20_AttemptNoOverwrite ==
    [][\A t \in Threads :
          (th[t].pc = "m_val" /\ th[t].m_op = "AttemptInsert" /\ Steps(t)
              /\ IsLive(chunks[th[t].m_chunk].val[m_slot(th[t])])) =>
                /\ chunks' = chunks
                /\ th'[t] = cr_next([th[t] EXCEPT !.res = NoRes, !.m_chunk = 0, !.m_key = 0,
                                       !.m_op = "none", !.m_val = 0, !.m_att = 0,
                                       !.m_ret = "none", !.idx = 0, !.count = 0, !.raw = 0,
                                       !.replaced = None],
                                    chunks[th[t].chunk_ptr].capacity)]_vars

\* C20 witness: the migrator is past a slot of the old chunk that still holds a live
\* value, while the new chunk holds the same key with the value of a racing insert
\* that has not yet written its Sentinel
C20_Witness ==
    /\ Migrating
    /\ th[1].pc = "cr_add" /\ th[1].chunk_ptr = chunk
    /\ th[2].op = "insert" /\ th[2].m_op = "Sentinel"
    /\ \E i \in Slots(chunks[chunk]) :
          /\ chunks[chunk].key[i] = th[2].key
          /\ Value_new(chunks[chunk].val[i]).tag = "Val"
          /\ \E j \in SlotsOf(chunks[new_chunk], th[2].key) :
                chunks[new_chunk].val[j] = BitAnd(th[2].value, val_bit_mask)

\* thread t is in the scan of check_resize (the AttemptInsert it makes included)
Scanning(t) ==
    \/ th[t].pc \in {"cr_key", "cr_val", "cr_att", "cr_cas_old", "cr_strip", "cr_add"}
    \/ th[t].m_ret = "cr_after"

\* C13: at every instant at most one thread executes the scan of check_resize, and a
\* thread that reaches the final CAS of `chunk` finds there the chunk it migrated (the
\* CAS succeeds, the panic on its failure is unreachable).
C13_SingleMigration ==
    /\ Cardinality({t \in Threads : Scanning(t)}) <= 1
    /\ \A t \in Threads : th[t].pc = "cr_swap_old" => chunk = th[t].chunk_ptr

\* C19: an insert that observes new_chunk null starts a migration exactly when the
\* occupation of the chunk in `chunk` is greater than floor(0.70 * capacity) and
\* changes nothing in the table otherwise; the chunk it publishes has 16 times the
\* capacity below 2048 slots and twice the capacity from there on, a power of two and
\* no smaller than before.
C19_GrowthPolicy ==
    [][\A t \in Threads :
          (th[t].pc \in {"cr_occ", "cr_swap_new"} /\ Steps(t)) =>
              LET cur == chunks[chunk]
                  over == cur.occupation > (cur.capacity * 7) \div 10
              IN  /\ (th[t].pc = "cr_occ" /\ over) => th'[t].pc = "cr_swap_new"
                  /\ IF new_chunk = 0 /\ new_chunk' # 0
                     THEN /\ over
                          /\ chunks'[new_chunk'].capacity =
                                IF cur.capacity < 2048 THEN cur.capacity * 16
                                ELSE cur.capacity * 2
                          /\ IsPow2(chunks'[new_chunk'].capacity)
                          /\ chunks'[new_chunk'].capacity >= cur.capacity
                     ELSE chunks' = chunks /\ chunk' = chunk /\ new_chunk' = new_chunk]_vars

\* the triples of a sequential map that holds what the calls so far left in it
EntriesExpected ==
    {<<uk + NUM_KEY_FIX, settled[uk][2], settled[uk][3]>> :
        uk \in {k \in cfg.keys : IsHeld(settled[k])}}

\* C12: entries() reads the new chunk only when new_chunk is non-null; called with no
\* operation in progress and no migration in flight it returns exactly one triple
\* (k, payload, attachment) for each key that get finds, with that payload, and
\* nothing else.
C12_EntriesQuiescent ==
    \A t \in Threads :
        /\ th[t].pc = "e_new" => th[t].new_chunk_ptr # 0
        /\ (Alone(t) /\ th[t].op = "entries") => th[t].pc # "panic"
        /\ (Alone(t) /\ Returned(t, "entries")) =>
              /\ Len(th[t].ret) = Cardinality(EntriesExpected)
              /\ {th[t].ret[n] : n \in 1 .. Len(th[t].ret)} = EntriesExpected

\* C11: every get, insert and remove invocation comes to its end after finitely many
\* of its own steps, also when every other thread is stalled for ever (here: every
\* call of thread 2, whatever thread 1 does or stops doing).
C11_NonBlocking == (th[2].pc # "idle") ~> (th[2].pc \in {"idle", "panic"})

\* C21: when the modify_entry call made by insert returns Sentinel, insert returns
\* absent and the call has changed nothing: it tombstoned no slot on its way (its
\* `replaced` is still None), it wrote no key, value or attachment, and it does not
\* increment an occupation counter.
C21_SentinelAbortNoop ==
    [][\A t \in Threads :
          (th[t].pc = "m_val" /\ th[t].m_op = "Insert" /\ Steps(t)
              /\ Value_new(chunks[th[t].m_chunk].val[m_slot(th[t])]).tag = "Sentinel") =>
                /\ th[t].replaced = None
                /\ chunks' = chunks
                /\ th'[t].pc = "ret" /\ th'[t].ret = None]_vars

\* C22: on a table of capacity at least 2 no modify_entry call with Insert or
\* AttemptInsert exhausts its probe budget: no call gets TableFull, neither insert's
\* nor the migrator's panic on it is reached, under any interleaving.
C22_NoTableFull ==
    (ctor.st = "ok" /\ ctor.cap >= 2) => \A t \in Threads : th[t].res.tag # "TableFull"

\* C23: a resize attempt that does not migrate changes nothing: when check_resize
\* returns NoNeed, or SwapFailed because new_chunk was not null at its CAS, `chunk`,
\* `new_chunk`, every slot and occupation counter of every published chunk and the
\* list of published chunks stay as they are (the allocated chunk is not published).
C23_NoMigrationNoChange ==
    [][\A t \in Threads :
          LET old == chunks[th[t].chunk_ptr]
              NoNeed == th[t].pc = "cr_occ" /\ old.occupation <= old.occu_limit
              Lost == th[t].pc = "cr_swap_new" /\ new_chunk # 0
          IN  (Steps(t) /\ (NoNeed \/ Lost)) =>
                 /\ chunks' = chunks /\ chunk' = chunk /\ new_chunk' = new_chunk
                 /\ retired' = retired
                 /\ Lost => th'[t].res = SwapFailed
                 /\ NoNeed => th'[t].pc = "m_key" /\ th'[t].m_chunk = th[t].chunk_ptr]_vars

\* C23 witness: check_resize has just returned SwapFailed to an insert while the
\* other thread's migration is in flight
C23_Witness ==
    /\ Migrating
    /\ th[2].pc = "i_load_chunk" /\ th[2].res = SwapFailed
    /\ Scanning(1)

\* the chunks handed to guard.defer_destroy
Retired == {retired[n] : n \in 1 .. Len(retired)}

AttSetInOrder(t) ==
    th[t].pc = "m_set_att" => chunks[th[t].m_chunk].key[m_slot(th[t])] = EMPTY_KEY

\* attachment.erase: the slot holds a tombstone or a Sentinel when it is erased
AttEraseInOrder(t) ==
    LET l == th[t] IN
    /\ (l.pc = "m_tomb" /\ cas_ok(chunks[l.m_chunk].val[m_slot(l)], l.raw)) =>
          chunks'[l.m_chunk].val[m_slot(l)] = 0
    /\ l.pc = "m_set_sentinel" => chunks'[l.m_chunk].val[m_slot(l)] = SENTINEL_VALUE
    /\ (l.pc = "cr_strip" /\ cas_ok(chunks[l.r_new].val[l.r_entry], primed_val(l.r_raw))) =>
          chunks[l.chunk_ptr].val[l.r_idx] = SENTINEL_VALUE

\* attachment.get: the reader has observed a live value in the slot it reads, and the
\* call has not erased that slot before: get and the migrator hold the value they
\* read, remove does not go on to read the slot its own CAS tombstoned, and its
\* fallback reads the slot in which its second modify_entry found the value
AttGetInOrder(t) ==
    LET l == th[t] IN
    /\ l.pc = "g_att" => l.raw # 0
    /\ l.pc = "cr_att" => IsLive(l.r_raw)
    /\ (l.pc = "m_tomb" /\ l.m_op = "Empty"
          /\ cas_ok(chunks[l.m_chunk].val[m_slot(l)], l.raw)) => th'[t].pc # "r_att"
    /\ (l.pc = "r_after2" /\ l.res.tag \in {"Done", "Replaced"}) =>
          (l.new_chunk_ptr = l.chunk_ptr /\ l.res.index = 0)

\* C25: on an object map an attachment slot is set only by the winner of the slot's
\* value CAS and before the slot's key is published, erased only after the slot's
\* value was tombstoned or sentinelized, and read only for a slot whose live value the
\* reader has observed and never after the same operation erased it (get, both paths
\* of remove, the migrator).
C25_AttachmentDiscipline ==
    [][\A t \in Threads :
          (cfg.kind = "object" /\ Steps(t)) =>
              AttSetInOrder(t) /\ AttEraseInOrder(t) /\ AttGetInOrder(t)]_vars

\* no call is in progress
Quiescent == ctor.st = "ok" /\ \A t \in Threads : th[t].pc = "idle"
\* the slots of a chunk whose key word is not zero
Claimed(c) == {i \in Slots(c) : c.key[i] # EMPTY_KEY}

\* C26: whenever no operation is in progress, the occupation of each chunk the table
\* references equals the number of its slots whose key word is non-zero, whatever
\* interleaving of inserts, removes and migrations came before.
C26_OccupationCountsClaimed ==
    Quiescent =>
        \A c \in {chunk, new_chunk} \ {0} :
            chunks[c].occupation = Cardinality(Claimed(chunks[c]))

\* get_from_chunk run in one piece on chunk c: the value word it returns and its slot
RECURSIVE get_from_chunk(_, _, _, _)
get_from_chunk(c, key, idx, counter) ==
    IF ~g_budget(counter, c.capacity) THEN <<0, 0>>
    ELSE LET i == BitAnd(idx, cap_mask(c)) IN
         IF c.key[i] = key /\ c.val[i] # 0 THEN <<c.val[i], i>>
         ELSE IF c.key[i] = EMPTY_KEY THEN <<0, 0>>
         ELSE get_from_chunk(c, key, i + 1, counter + 1)

\* what get(key, true) returns when it runs in one piece on the table (chs, c, n) of
\* published chunks, `chunk` and `new_chunk`; "spin" when it would not return
GetResult(chs, c, n, key) ==
    LET first == get_from_chunk(chs[c], key, hash(key), 0)
        second == get_from_chunk(chs[n], key, hash(key), 0)
    IN  IF IsLive(first[1]) THEN Some(<<Value_new(first[1]).v, chs[c].att[first[2]]>>)
        ELSE IF first[1] = 0 \/ n = 0 THEN None
        ELSE IF IsLive(second[1]) THEN Some(<<Value_new(second[1]).v, chs[n].att[second[2]]>>)
        ELSE IF second[1] = 0 THEN None
        ELSE <<"spin">>

\* thread t is about to take a step of modify_entry made for a remove, or for an
\* insert that replaces a value (it is at the tombstone CAS or past it), the Sentinel
\* operation that follows in copying mode included
OnOwnKey(t) ==
    LET l == th[t] IN
    /\ l.pc \in {"m_key", "m_val", "m_set_sentinel", "m_tomb", "m_cas_empty",
                 "m_set_att", "m_store_key"}
    /\ \/ l.op = "remove"
       \/ /\ l.op = "insert" /\ l.m_op \in {"Insert", "Sentinel"}
          /\ l.pc = "m_tomb" \/ l.replaced # None \/ l.res.tag = "Replaced"

\* C27: the steps of remove(k) and of an insert(k, _) that replaces a value do not
\* change what get(k') returns for any key k' other than k, also for keys whose probe
\* sequence passes through k's slots.
C27_OtherKeysUntouched ==
    [][\A t \in Threads :
          (OnOwnKey(t) /\ Steps(t)) =>
              \A uk \in cfg.keys \ {th[t].ukey} :
                  GetResult(chunks', chunk', new_chunk', uk + NUM_KEY_FIX) =
                      GetResult(chunks, chunk, new_chunk, uk + NUM_KEY_FIX)]_vars

\* C28: every migration completes: once a thread that keeps being scheduled (here
\* thread 2) has installed its new chunk in new_chunk, eventually `chunk` references
\* that chunk and new_chunk is null again, whatever the other thread does.
C28_MigrationCompletes ==
    \A n \in 1 .. MaxChunks + 1 :
        (new_chunk = n /\ th[2].r_new = n) ~> (chunk = n /\ new_chunk = 0)

\* C29: whenever insert or remove has loaded a non-null new_chunk pointer, the pointer
\* it loaded from `chunk` is another chunk (both debug assertions hold), and the
\* Sentinel operation it applies does not go to the chunk it has just written.
C29_CopyingDistinctChunks ==
    \A t \in Threads :
        (th[t].op \in {"insert", "remove"} /\ copying(th[t]) /\ th[t].chunk_ptr # 0) =>
            /\ th[t].new_chunk_ptr # th[t].chunk_ptr
            /\ th[t].pc \notin {"i_assert", "r_assert"}
            /\ th[t].m_op = "Sentinel" => th[t].m_chunk # modify_chunk(th[t])

\* the newest chunk: the one new_chunk references, or `chunk` when new_chunk is null
Newest == IF new_chunk # 0 THEN new_chunk ELSE chunk

\* C30: no slot of the newest chunk ever holds Sentinel; hence a get that runs with
\* no migration in flight does not meet a Sentinel in the current chunk and an insert
\* does not abort on one.
C30_NoSentinelInNewest ==
    ctor.st = "ok" =>
        \A i \in Slots(chunks[Newest]) : chunks[Newest].val[i] # SENTINEL_VALUE

\* the slots of chunk c that hold key with a Val or Prime value
LiveSlotsOf(c, key) == {i \in SlotsOf(c, key) : IsLive(c.val[i])}

\* C31: in every reachable state and in every chunk at most one slot whose key word
\* equals a given key holds a Val or Prime value, under any interleaving.
C31_OneLiveSlotPerKey ==
    \A c \in 1 .. Len(chunks) :
        \A uk \in cfg.keys :
            Cardinality(LiveSlotsOf(chunks[c], uk + NUM_KEY_FIX)) <= 1

====
